---- MODULE Spec2Model ----
(***************************************************************************)
(* wpull application builder (src/wpull/app.py).                           *)
(*                                                                         *)
(* The Builder takes the parsed command-line arguments, parses the seed    *)
(* URLs in its constructor, and build() wires the crawl components: hook   *)
(* factories, URL table (frontier), WebProcessor (filters, scrapers, file  *)
(* writer, waiter, request factory), HTTP client (resolver, connection     *)
(* pool, recorder) and finally the Engine.  build_and_run() runs the       *)
(* Engine on the IO loop and returns its exit status.                      *)
(*                                                                         *)
(* Collaborators whose code lives outside app.py (URLTable, Engine, the    *)
(* filters, recorders, ...) are modelled as records of the constructor     *)
(* arguments they were given and of the calls made on them.                *)
(*                                                                         *)
(* Encoding of Python values: a Python string is a TLA+ string and None,   *)
(* where a string is expected, is the string "None"; a list or tuple is a  *)
(* sequence; an object that may be None is a sequence of length 0 (None)   *)
(* or 1 (the object).  Options that app.py only passes through to a        *)
(* collaborator hold a token naming the option.                            *)
(***************************************************************************)
EXTENDS Naturals, Sequences, FiniteSets, TLC

(***************************************************************************)
(* Bounds of the model.                                                    *)
(***************************************************************************)
\* Longest command-line URL list.
MaxUrls == 2
\* Longest input file (in lines).
MaxInputUrls == 1
\* Longest list of caller-supplied header lines.
MaxHeaders == 2
\* Number of build() / build_and_run() calls made on one Builder.
MaxBuilds == 2
\* Number of calls of each factory closure while the Engine runs.
MaxCalls == 1
\* Largest exit status the Engine produces.
MaxExitCode == 2
\* Largest value of the 'concurrent' option.
MaxConcurrent == 2

(***************************************************************************)
(* Python helpers.                                                         *)
(***************************************************************************)
None == "None"

\* Python truthiness of a string-or-None option value.
Truthy(v) == v \notin {None, ""}

\* An absent object (Python None where an object is expected).
NoObject == <<>>

\* All sequences over S of length at most n.
SeqsUpTo(S, n) == UNION {[1..k -> S] : k \in 0..n}

\* itertools.chain(a, b)
chain(a, b) == a \o b

Range(s) == {s[i] : i \in DOMAIN s}

\* Positions of event e in sequence s.
Positions(s, e) == {i \in DOMAIN s : s[i] = e}

(***************************************************************************)
(* URLInfo.parse: a URL string to a normalized record, or a failure.       *)
(* The seed strings of the model: a host without scheme (the default       *)
(* scheme applies), an upper-case URL (normalization lowers scheme and     *)
(* host), and a URL without host (malformed).                              *)
(***************************************************************************)
RawUrls == {"a.test/", "HTTPS://B.test/x", "http://"}

Malformed(url_string) == url_string = "http://"

parse(url_string, default_scheme) ==
    CASE url_string = "a.test/" ->
            [scheme |-> default_scheme, hostname |-> "a.test",
             url |-> default_scheme \o "://a.test/"]
      [] url_string = "HTTPS://B.test/x" ->
            [scheme |-> "https", hostname |-> "b.test",
             url |-> "https://b.test/x"]
      [] OTHER ->
            [scheme |-> "", hostname |-> "", url |-> ""]

(***************************************************************************)
(* The arguments object (self._args).  DefaultArgs holds every option      *)
(* app.py reads.  An unset string option is None, an unset flag FALSE.     *)
(* input_file is NoObject or <<lines>>, the open file's lines.             *)
(***************************************************************************)
DefaultArgs ==
    [urls |-> <<"a.test/">>, input_file |-> NoObject,
     python_script |-> None, database |-> ":memory:", concurrent |-> 1,
     verbosity |-> None, output_file |-> None, append_output |-> None,
     domains |-> "domains", exclude_domains |-> "exclude_domains",
     hostnames |-> "hostnames", exclude_hostnames |-> "exclude_hostnames",
     tries |-> "tries", level |-> "level",
     recursive |-> FALSE, page_requisites |-> FALSE,
     span_hosts |-> FALSE, no_parent |-> FALSE,
     accept_regex |-> "accept_regex", reject_regex |-> "reject_regex",
     include_directories |-> "include_directories",
     exclude_directories |-> "exclude_directories",
     follow_tags |-> "follow_tags", ignore_tags |-> "ignore_tags",
     relative |-> "relative", robots |-> FALSE,
     warc_file |-> None, no_warc_compression |-> FALSE,
     warc_header |-> <<>>, warc_tempdir |-> "warc_tempdir",
     warc_log |-> "warc_log", warc_append |-> FALSE,
     server_response |-> FALSE,
     wait |-> "wait", random_wait |-> "random_wait",
     waitretry |-> "waitretry",
     retry_connrefused |-> "retry_connrefused",
     retry_dns_error |-> "retry_dns_error",
     max_redirect |-> "max_redirect",
     delete_after |-> FALSE, use_directories |-> None,
     directory_prefix |-> "directory_prefix",
     default_page |-> "default_page", cut_dirs |-> "cut_dirs",
     protocol_directories |-> "protocol_directories",
     host_directories |-> "host_directories",
     clobber_method |-> None, continue_download |-> FALSE,
     timestamping |-> FALSE, save_headers |-> "save_headers",
     use_server_timestamps |-> "use_server_timestamps",
     user_agent |-> None, referer |-> None, header |-> <<>>,
     dns_timeout |-> "dns_timeout", connect_timeout |-> "connect_timeout",
     read_timeout |-> "read_timeout", timeout |-> None,
     inet_family |-> None, prefer_family |-> None,
     rotate_dns |-> "rotate_dns", http_keep_alive |-> "http_keep_alive"]

UrlLists == SeqsUpTo(RawUrls, MaxUrls)

\* The input file: absent, or open with lines of one good and one bad URL.
InputFiles ==
    {NoObject} \cup {<<lines>> : lines \in SeqsUpTo({"a.test/", "http://"}, MaxInputUrls)}

\* logging.DEBUG, INFO, WARN, ERROR, and the unset verbosity.
Verbosities == {None, "DEBUG", "INFO", "WARN", "ERROR"}

\* 'Name: value' lines for the WARC info record, as character sequences.
WarcHeaderLines == {<<"k", ":", " ", "v", ":", "w", " ">>}

HeaderLines == {"Accept: */*", "User-Agent: custom"}

(***************************************************************************)
(* The configurations explored.  Each group of options that one part of    *)
(* the builder reads ranges over all its combinations while the other      *)
(* options keep their defaults.                                            *)
(***************************************************************************)
SeedArgs ==
    {[DefaultArgs EXCEPT !.urls = u, !.input_file = f, !.span_hosts = s,
                         !.python_script = p] :
        u \in UrlLists, f \in InputFiles, s \in BOOLEAN,
        p \in {None, "hook.py"}}

FilterArgs ==
    {[DefaultArgs EXCEPT !.no_parent = np, !.recursive = r,
                         !.page_requisites = pr, !.span_hosts = s,
                         !.tries = t, !.level = l] :
        np \in BOOLEAN, r \in BOOLEAN, pr \in BOOLEAN, s \in BOOLEAN,
        t \in {"tries", "tries2"}, l \in {"level", "level2"}}

WriterArgs ==
    {[DefaultArgs EXCEPT !.delete_after = d, !.recursive = r,
                         !.page_requisites = pr, !.continue_download = c,
                         !.timestamping = t, !.clobber_method = m,
                         !.use_directories = ud, !.urls = u] :
        d \in BOOLEAN, r \in BOOLEAN, pr \in BOOLEAN, c \in BOOLEAN,
        t \in BOOLEAN, m \in {None, "disable", "enable"},
        ud \in {None, "force", "no"},
        u \in {<<"a.test/">>, <<"a.test/", "HTTPS://B.test/x">>}}

RecorderArgs ==
    {[DefaultArgs EXCEPT !.warc_file = w, !.no_warc_compression = nc,
                         !.warc_append = a, !.server_response = sr,
                         !.verbosity = v, !.robots = rb,
                         !.warc_header = h] :
        w \in {None, "", "out"}, nc \in BOOLEAN, a \in BOOLEAN,
        sr \in BOOLEAN, v \in Verbosities, rb \in BOOLEAN,
        h \in SeqsUpTo(WarcHeaderLines, 1)}

LoggingArgs ==
    {[DefaultArgs EXCEPT !.verbosity = v, !.output_file = o,
                         !.append_output = a] :
        v \in Verbosities, o \in {None, "out.log"}, a \in {None, "app.log"}}

RequestArgs ==
    {[DefaultArgs EXCEPT !.user_agent = ua, !.referer = r, !.header = h] :
        ua \in {None, "", "Bot/1.0"}, r \in {None, "", "http://ref.test/"},
        h \in SeqsUpTo(HeaderLines, MaxHeaders)}

NetworkArgs ==
    {[DefaultArgs EXCEPT !.timeout = t, !.inet_family = f,
                         !.prefer_family = pf, !.concurrent = c,
                         !.python_script = p] :
        t \in {None, "timeout"}, f \in {None, "IPv4", "IPv6"},
        pf \in {None, "IPv4", "IPv6"}, c \in 1..MaxConcurrent,
        p \in {None, "hook.py"}}

ArgsSpace ==
    SeedArgs \cup FilterArgs \cup WriterArgs \cup RecorderArgs
        \cup LoggingArgs \cup RequestArgs \cup NetworkArgs

(***************************************************************************)
(* The overridable class registry (self._classes) as the constructor       *)
(* fills it: component name -> implementation.                             *)
(***************************************************************************)
InitialClasses ==
    [URLInfo |-> "URLInfo",
     URLTable |-> "URLTable",
     HTMLScraper |-> "HTMLScraper",
     CSSScraper |-> "Engine",
     Client |-> "Client",
     Connection |-> "Connection",
     HostConnectionPool |-> "HostConnectionPool",
     ConnectionPool |-> "ConnectionPool",
     Request |-> "Request",
     Resolver |-> "Resolver",
     WebProcessor |-> "WebProcessor",
     WARCRecorder |-> "WARCRecorder",
     DemuxRecorder |-> "DemuxRecorder",
     PrintServerResponseRecorder |-> "PrintServerResponseRecorder",
     ProgressRecorder |-> "ProgressRecorder",
     Waiter |-> "LinearWaiter",
     PathNamer |-> "PathNamer",
     Engine |-> "Engine"]

\* The registry before the constructor ran: no entry is bound.
UnboundClasses == [n \in DOMAIN InitialClasses |-> "unbound"]

(***************************************************************************)
(* Builder._build_input_urls, consumed by tuple() in the constructor: the  *)
(* command-line URLs, then the input file's lines, each parsed; the first  *)
(* parse failure ends the iteration by raising.  `parsed' are the URL      *)
(* infos yielded before that.                                              *)
(***************************************************************************)
url_string_iter(a) ==
    IF a.input_file # NoObject
    THEN chain(a.urls, a.input_file[1])
    ELSE a.urls

Min(S) == CHOOSE m \in S : \A n \in S : m <= n

\* Mutant: the input file's lines are left out of the seeds.
_build_input_urls_without_input_file(a, default_scheme) ==
    LET it == a.urls
        bad == {i \in DOMAIN it : Malformed(it[i])}
        n == IF bad = {} THEN Len(it) ELSE Min(bad) - 1
    IN [raised |-> bad # {},
        parsed |-> [i \in 1..n |-> parse(it[i], default_scheme)]]

\* Mutant: a seed that fails to parse is skipped instead of raising.
_build_input_urls_skipping_malformed(a, default_scheme) ==
    LET it == SelectSeq(url_string_iter(a), LAMBDA u : ~Malformed(u))
    IN [raised |-> FALSE,
        parsed |-> [i \in DOMAIN it |-> parse(it[i], default_scheme)]]

_build_input_urls(a, default_scheme) ==
    LET it == url_string_iter(a)
        bad == {i \in DOMAIN it : Malformed(it[i])}
        n == IF bad = {} THEN Len(it) ELSE Min(bad) - 1
    IN [raised |-> bad # {},
        parsed |-> [i \in 1..n |-> parse(it[i], default_scheme)]]

\* Mutant: self._url_infos is the generator itself, exhausted by the first
\* iteration.
AfterIteration_of_generator(infos) == <<>>

\* self._url_infos is a tuple: iterating over it leaves it whole.
AfterIteration(infos) == infos

(***************************************************************************)
(* Builder._setup_logging and Builder._setup_file_logger, on the state of  *)
(* the root logger.  logging.basicConfig configures an unconfigured root   *)
(* logger only.                                                            *)
(***************************************************************************)
BlockingLogThreshold == 5

_setup_logging(a, lg) ==
    LET level == IF Truthy(a.verbosity) THEN a.verbosity ELSE "INFO"
        configured == IF lg.configured THEN lg
                      ELSE [lg EXCEPT !.configured = TRUE, !.level = level]
    IN IF a.verbosity = "DEBUG"
       THEN [configured EXCEPT !.blocking_log_threshold = BlockingLogThreshold]
       ELSE configured

_setup_file_logger(a, lg) ==
    IF ~(Truthy(a.output_file) \/ Truthy(a.append_output))
    THEN lg
    ELSE LET filename == IF Truthy(a.output_file) THEN a.output_file
                         ELSE a.append_output
             mode == IF Truthy(a.output_file) THEN "w" ELSE "a"
             level == IF a.verbosity = "DEBUG" THEN "DEBUG" ELSE "INFO"
             handler == [filename |-> filename, mode |-> mode, level |-> level]
         IN [lg EXCEPT !.configured = TRUE,
                       !.handlers = Append(lg.handlers, handler)]

(***************************************************************************)
(* Builder._install_python_script: the registry after the hook             *)
(* environment's factories are installed.                                  *)
(***************************************************************************)
\* Mutant: the resolver factory is not installed.
_install_python_script_without_resolver(cls) ==
    [cls EXCEPT !.Engine = "hook_environment.engine_factory",
                !.WebProcessor = "hook_environment.web_processor_factory"]

_install_python_script(cls) ==
    [cls EXCEPT !.Engine = "hook_environment.engine_factory",
                !.WebProcessor = "hook_environment.web_processor_factory",
                !.Resolver = "hook_environment.resolver_factory"]

\* What opening, compiling and executing the script file can end in.
ScriptOutcomes == {"ok", "IOError", "script_error"}

(***************************************************************************)
(* Builder._build_url_table: the table and the calls made on it.           *)
(***************************************************************************)
_build_url_table(a, cls, infos) ==
    [cls |-> cls.URLTable,
     path |-> a.database,
     calls |-> <<[op |-> "add",
                  urls |-> [i \in DOMAIN infos |-> infos[i].url]]>>]

\* Mutant: the ParentFilter is appended unless no_parent is set.
_build_url_filters_parent_inverted(a, infos) ==
    LET filters ==
          <<[cls |-> "HTTPFilter"],
            [cls |-> "BackwardDomainFilter", accepted |-> a.domains,
             rejected |-> a.exclude_domains],
            [cls |-> "HostnameFilter", accepted |-> a.hostnames,
             rejected |-> a.exclude_hostnames],
            [cls |-> "TriesFilter", max_tries |-> a.tries],
            [cls |-> "RecursiveFilter", recursive |-> a.recursive,
             page_requisites |-> a.page_requisites],
            [cls |-> "LevelFilter", max_depth |-> a.level],
            [cls |-> "SpanHostsFilter", input_url_infos |-> infos,
             enabled |-> a.span_hosts],
            [cls |-> "RegexFilter", accepted |-> a.accept_regex,
             rejected |-> a.reject_regex],
            [cls |-> "DirectoryFilter", accepted |-> a.include_directories,
             rejected |-> a.exclude_directories]>>
    IN IF ~a.no_parent
       THEN Append(filters, [cls |-> "ParentFilter"])
       ELSE filters

(***************************************************************************)
(* Builder._build_url_filters                                              *)
(***************************************************************************)
_build_url_filters(a, infos) ==
    LET filters ==
          <<[cls |-> "HTTPFilter"],
            [cls |-> "BackwardDomainFilter", accepted |-> a.domains,
             rejected |-> a.exclude_domains],
            [cls |-> "HostnameFilter", accepted |-> a.hostnames,
             rejected |-> a.exclude_hostnames],
            [cls |-> "TriesFilter", max_tries |-> a.tries],
            [cls |-> "RecursiveFilter", recursive |-> a.recursive,
             page_requisites |-> a.page_requisites],
            [cls |-> "LevelFilter", max_depth |-> a.level],
            [cls |-> "SpanHostsFilter", input_url_infos |-> infos,
             enabled |-> a.span_hosts],
            [cls |-> "RegexFilter", accepted |-> a.accept_regex,
             rejected |-> a.reject_regex],
            [cls |-> "DirectoryFilter", accepted |-> a.include_directories,
             rejected |-> a.exclude_directories]>>
    IN IF a.no_parent
       THEN Append(filters, [cls |-> "ParentFilter"])
       ELSE filters

(***************************************************************************)
(* Builder._build_document_scrapers                                        *)
(***************************************************************************)
_build_document_scrapers(a) ==
    <<[cls |-> "HTMLScraper", followed_tags |-> a.follow_tags,
       ignored_tags |-> a.ignore_tags, only_relative |-> a.relative,
       robots |-> a.robots],
      [cls |-> "CSSScraper"]>>

\* Mutant: timestamping is tested before recursive / page_requisites /
\* continue_download.
_build_file_writer_timestamping_first(a, cls) ==
    IF a.delete_after
    THEN [writer |-> [cls |-> "NullWriter"], events |-> <<"NullWriter">>]
    ELSE
      LET file_class ==
            IF a.timestamping
            THEN "TimestampingFileWriter"
            ELSE IF a.recursive \/ a.page_requisites \/ a.continue_download
            THEN IF a.clobber_method = "disable"
                 THEN "OverwriteFileWriter"
                 ELSE "IgnoreFileWriter"
            ELSE "AntiClobberFileWriter"
      IN [writer |-> [cls |-> file_class,
                      path_namer |-> [cls |-> cls.PathNamer],
                      file_continuing |-> a.continue_download,
                      headers_included |-> a.save_headers,
                      local_timestamping |-> a.use_server_timestamps],
          events |-> <<"PathNamer", file_class>>]

(***************************************************************************)
(* Builder._build_file_writer: the writer, and the constructions made on   *)
(* the way (events).                                                       *)
(***************************************************************************)
_build_file_writer(a, cls) ==
    IF a.delete_after
    THEN [writer |-> [cls |-> "NullWriter"], events |-> <<"NullWriter">>]
    ELSE
      LET use_dir0 == Len(a.urls) # 1 \/ a.page_requisites \/ a.recursive
          use_dir == IF a.use_directories = "force" THEN TRUE
                     ELSE IF a.use_directories = "no" THEN FALSE
                     ELSE use_dir0
          path_namer == [cls |-> cls.PathNamer,
                         directory_prefix |-> a.directory_prefix,
                         index |-> a.default_page,
                         use_dir |-> use_dir,
                         cut |-> a.cut_dirs,
                         protocol |-> a.protocol_directories,
                         hostname |-> a.host_directories]
          file_class ==
            IF a.recursive \/ a.page_requisites \/ a.continue_download
            THEN IF a.clobber_method = "disable"
                 THEN "OverwriteFileWriter"
                 ELSE "IgnoreFileWriter"
            ELSE IF a.timestamping
            THEN "TimestampingFileWriter"
            ELSE "AntiClobberFileWriter"
      IN [writer |-> [cls |-> file_class,
                      path_namer |-> path_namer,
                      file_continuing |-> a.continue_download,
                      headers_included |-> a.save_headers,
                      local_timestamping |-> a.use_server_timestamps],
          events |-> <<"PathNamer", file_class>>]

\* Mutant: the caller's header lines are applied before User-Agent and
\* Referer are set.
request_factory_headers_first(a, cls) ==
    LET user_agent == IF Truthy(a.user_agent) THEN a.user_agent
                      ELSE "Mozilla/5.0 (compatible) Wpull/__version__"
        set_ua == <<[op |-> "set", name |-> "User-Agent", value |-> user_agent]>>
        set_referer == IF Truthy(a.referer)
                       THEN <<[op |-> "set", name |-> "Referer",
                               value |-> a.referer]>>
                       ELSE <<>>
        parsed == [i \in DOMAIN a.header |->
                     [op |-> "parse", name |-> "", value |-> a.header[i]]]
    IN [cls |-> cls.Request, field_ops |-> parsed \o set_ua \o set_referer]

(***************************************************************************)
(* The closure Builder._build_request_factory returns, called: the new     *)
(* request and, in order, the operations made on its header fields.        *)
(***************************************************************************)
WpullVersion == "__version__"

request_factory(a, cls) ==
    LET user_agent == IF Truthy(a.user_agent) THEN a.user_agent
                      ELSE "Mozilla/5.0 (compatible) Wpull/" \o WpullVersion
        set_ua == <<[op |-> "set", name |-> "User-Agent", value |-> user_agent]>>
        set_referer == IF Truthy(a.referer)
                       THEN <<[op |-> "set", name |-> "Referer",
                               value |-> a.referer]>>
                       ELSE <<>>
        parsed == [i \in DOMAIN a.header |->
                     [op |-> "parse", name |-> "", value |-> a.header[i]]]
    IN [cls |-> cls.Request, field_ops |-> set_ua \o set_referer \o parsed]

(***************************************************************************)
(* Builder._build_processor                                                *)
(***************************************************************************)
_build_processor(a, cls, infos) ==
    LET url_filters == _build_url_filters(a, infos)
        document_scrapers == _build_document_scrapers(a)
        fw == _build_file_writer(a, cls)
        waiter == [cls |-> cls.Waiter, wait |-> a.wait,
                   random_wait |-> a.random_wait, max_wait |-> a.waitretry]
    IN [processor |->
          [cls |-> cls.WebProcessor,
           url_filters |-> url_filters,
           document_scrapers |-> document_scrapers,
           file_writer |-> fw.writer,
           waiter |-> waiter,
           request_factory |-> "request_factory",
           retry_connrefused |-> a.retry_connrefused,
           retry_dns_error |-> a.retry_dns_error,
           max_redirects |-> a.max_redirect,
           robots |-> a.robots],
        events |-> [i \in DOMAIN url_filters |-> url_filters[i].cls]
                   \o [i \in DOMAIN document_scrapers |-> document_scrapers[i].cls]
                   \o fw.events
                   \o <<"Waiter", "WebProcessor">>]

(***************************************************************************)
(* str.split(':', 1) and str.strip() on character sequences.               *)
(***************************************************************************)
Whitespace == {" "}

RECURSIVE lstrip(_)
lstrip(s) ==
    IF s # <<>> /\ Head(s) \in Whitespace THEN lstrip(Tail(s)) ELSE s

RECURSIVE rstrip(_)
rstrip(s) ==
    IF s # <<>> /\ s[Len(s)] \in Whitespace
    THEN rstrip(SubSeq(s, 1, Len(s) - 1))
    ELSE s

strip(s) == rstrip(lstrip(s))

\* The two parts around the first colon (the lines of the model hold one).
split_colon(s) ==
    LET k == Min({i \in DOMAIN s : s[i] = ":"})
    IN <<SubSeq(s, 1, k - 1), SubSeq(s, k + 1, Len(s))>>

\* Mutant: the WARC recorder's compress flag is no_warc_compression itself.
_build_recorder_compress_flipped(a, cls) ==
    LET warc_path == IF a.no_warc_compression
                     THEN a.warc_file \o ".warc"
                     ELSE a.warc_file \o ".warc.gz"
        warc == IF Truthy(a.warc_file)
                THEN <<[cls |-> cls.WARCRecorder,
                        filename |-> warc_path,
                        compress |-> a.no_warc_compression,
                        appending |-> a.warc_append]>>
                ELSE <<>>
        server_response ==
            IF a.server_response
            THEN <<[cls |-> cls.PrintServerResponseRecorder]>>
            ELSE <<>>
        progress ==
            IF a.verbosity \in {"INFO", "DEBUG", "WARN", None}
            THEN <<[cls |-> cls.ProgressRecorder]>>
            ELSE <<>>
        recorders == warc \o server_response \o progress
    IN [recorder |-> [cls |-> cls.DemuxRecorder, recorders |-> recorders],
        events |-> [i \in DOMAIN recorders |-> recorders[i].cls]
                   \o <<"DemuxRecorder">>]

(***************************************************************************)
(* Builder._build_recorder: the DemuxRecorder over the sinks the options   *)
(* ask for, and the constructions made (events).                           *)
(***************************************************************************)
_build_recorder(a, cls) ==
    LET warc_path == IF a.no_warc_compression
                     THEN a.warc_file \o ".warc"
                     ELSE a.warc_file \o ".warc.gz"
        extra_fields ==
            <<[name |-> "robots", value |-> IF a.robots THEN "on" ELSE "off"],
              [name |-> "wpull-arguments", value |-> "str(args)"]>>
            \o [i \in DOMAIN a.warc_header |->
                  [name |-> strip(split_colon(a.warc_header[i])[1]),
                   value |-> strip(split_colon(a.warc_header[i])[2])]]
        warc == IF Truthy(a.warc_file)
                THEN <<[cls |-> cls.WARCRecorder,
                        filename |-> warc_path,
                        compress |-> ~a.no_warc_compression,
                        extra_fields |-> extra_fields,
                        temp_dir |-> a.warc_tempdir,
                        log |-> a.warc_log,
                        appending |-> a.warc_append]>>
                ELSE <<>>
        server_response ==
            IF a.server_response
            THEN <<[cls |-> cls.PrintServerResponseRecorder]>>
            ELSE <<>>
        progress ==
            IF a.verbosity \in {"INFO", "DEBUG", "WARN", None}
            THEN <<[cls |-> cls.ProgressRecorder]>>
            ELSE <<>>
        recorders == warc \o server_response \o progress
    IN [recorder |-> [cls |-> cls.DemuxRecorder, recorders |-> recorders],
        events |-> [i \in DOMAIN recorders |-> recorders[i].cls]
                   \o <<"DemuxRecorder">>]

(***************************************************************************)
(* Builder._build_http_client.  The connection factory closure captures    *)
(* the resolver and the connect and read timeouts.                         *)
(***************************************************************************)
_build_http_client(a, cls) ==
    LET dns_timeout == IF Truthy(a.timeout) THEN a.timeout ELSE a.dns_timeout
        connect_timeout == IF Truthy(a.timeout) THEN a.timeout
                           ELSE a.connect_timeout
        read_timeout == IF Truthy(a.timeout) THEN a.timeout
                        ELSE a.read_timeout
        families ==
            IF a.inet_family = "IPv4" THEN <<"Resolver.IPv4">>
            ELSE IF a.inet_family = "IPv6" THEN <<"Resolver.IPv6">>
            ELSE IF a.prefer_family = "IPv6"
            THEN <<"Resolver.IPv6", "Resolver.IPv4">>
            ELSE <<"Resolver.IPv4", "Resolver.IPv6">>
        resolver == [cls |-> cls.Resolver, families |-> families,
                     timeout |-> dns_timeout, rotate |-> a.rotate_dns]
        connection_factory == [resolver |-> resolver,
                               connect_timeout |-> connect_timeout,
                               read_timeout |-> read_timeout]
        connection_pool ==
            [cls |-> cls.ConnectionPool,
             host_connection_pool_factory |-> connection_factory]
        rec == _build_recorder(a, cls)
    IN [client |-> [cls |-> cls.Client,
                    connection_pool |-> connection_pool,
                    recorder |-> rec.recorder],
        events |-> <<"Resolver", "ConnectionPool">> \o rec.events
                   \o <<"Client">>]

\* host_connection_pool_factory and, through it, connection_factory,
\* called on the built client: the pool and a connection of it.
connection_factory(a, cls, client) ==
    LET captured == client.connection_pool.host_connection_pool_factory
    IN [pool_cls |-> cls.HostConnectionPool,
        cls |-> cls.Connection,
        resolver |-> captured.resolver,
        connect_timeout |-> captured.connect_timeout,
        read_timeout |-> captured.read_timeout,
        keep_alive |-> a.http_keep_alive]

(***************************************************************************)
(* The Engine as build() constructs it.                                    *)
(***************************************************************************)
_build_engine(a, cls, table, client, proc) ==
    [cls |-> cls.Engine,
     url_table |-> table,
     http_client |-> client,
     processor |-> proc,
     concurrent |-> a.concurrent]

\* Mutant: the HTTP client is built before the processor.
BuildOrder_client_before_processor ==
    <<"setup_logging", "setup_file_logger", "install_script_hooks",
      "build_url_table", "build_http_client", "build_processor",
      "construct_engine">>

(***************************************************************************)
(* The order of build()'s steps.                                           *)
(***************************************************************************)
BuildOrder ==
    <<"setup_logging", "setup_file_logger", "install_script_hooks",
      "build_url_table", "build_processor", "build_http_client",
      "construct_engine">>

\* The step after `step'; after the last one build() returns.
NextStep(step) ==
    LET i == CHOOSE j \in DOMAIN BuildOrder : BuildOrder[j] = step
    IN IF i < Len(BuildOrder) THEN BuildOrder[i + 1] ELSE "built"

\* The exit statuses an Engine run can end with.
ExitCodes == 0..MaxExitCode

(***************************************************************************)
(* State.                                                                  *)
(*   args          the arguments the Builder was given (never changes)     *)
(*   pc            "new" before Builder(args); "failed" when the           *)
(*                 constructor raised; "ready" between calls; a step of    *)
(*                 BuildOrder inside build(); "run_sync" while the Engine  *)
(*                 runs; "raised" when build() raised                      *)
(*   classes       self._classes                                           *)
(*   url_infos     self._url_infos                                         *)
(*   builds        number of build() calls started                         *)
(*   caller        the public method in progress or last called            *)
(*   trace         components constructed by the current build(), in order *)
(*   logging       the root logger                                         *)
(*   url_table, processor, http_client, engine                             *)
(*                 what the current build() built (NoObject or <<obj>>)    *)
(*   requests, connections                                                 *)
(*                 what the factory closures produced during the run       *)
(*   engine_result what the Engine's run ended with                        *)
(*   exit_code     what build_and_run() returned                           *)
(***************************************************************************)
VARIABLES args, pc, classes, url_infos, builds, caller, trace, logging,
          url_table, processor, http_client, engine, requests, connections,
          engine_result, exit_code

vars == <<args, pc, classes, url_infos, builds, caller, trace, logging,
          url_table, processor, http_client, engine, requests, connections,
          engine_result, exit_code>>

built == <<url_table, processor, http_client, engine>>
run == <<requests, connections, engine_result, exit_code>>

Init ==
    /\ args \in ArgsSpace
    /\ pc = "new"
    /\ classes = UnboundClasses
    /\ url_infos = <<>>
    /\ builds = 0
    /\ caller = "none"
    /\ trace = <<>>
    /\ logging = [configured |-> FALSE, level |-> "WARNING",
                  handlers |-> <<>>, blocking_log_threshold |-> NoObject]
    /\ url_table = NoObject
    /\ processor = NoObject
    /\ http_client = NoObject
    /\ engine = NoObject
    /\ requests = <<>>
    /\ connections = <<>>
    /\ engine_result = NoObject
    /\ exit_code = NoObject

\* Builder.__init__: fill the registry, then parse every seed.
Builder__init__ ==
    /\ pc = "new"
    /\ classes' = InitialClasses
    /\ LET r == _build_input_urls(args, "http")
       IN IF r.raised
          THEN pc' = "failed" /\ url_infos' = url_infos
          ELSE pc' = "ready" /\ url_infos' = r.parsed
    /\ UNCHANGED <<args, builds, caller, trace, logging, built, run>>

\* Entering a public method: the locals of build() are fresh.
Enter(method) ==
    /\ pc = "ready"
    /\ builds < MaxBuilds
    /\ caller' = method
    /\ builds' = builds + 1
    /\ pc' = BuildOrder[1]
    /\ trace' = <<>>
    /\ url_table' = NoObject
    /\ processor' = NoObject
    /\ http_client' = NoObject
    /\ engine' = NoObject
    /\ requests' = <<>>
    /\ connections' = <<>>
    /\ engine_result' = NoObject
    /\ exit_code' = NoObject
    /\ UNCHANGED <<args, classes, url_infos, logging>>

build == Enter("build")

build_and_run == Enter("build_and_run")

\* Where control goes after `step': the next step, or out of build().
After(step) ==
    IF NextStep(step) # "built" THEN NextStep(step)
    ELSE IF caller = "build_and_run" THEN "run_sync"
    ELSE "ready"

SetupLogging ==
    /\ pc = "setup_logging"
    /\ logging' = _setup_logging(args, logging)
    /\ pc' = After("setup_logging")
    /\ UNCHANGED <<args, classes, url_infos, builds, caller, trace, built, run>>

SetupFileLogger ==
    /\ pc = "setup_file_logger"
    /\ logging' = _setup_file_logger(args, logging)
    /\ pc' = After("setup_file_logger")
    /\ UNCHANGED <<args, classes, url_infos, builds, caller, trace, built, run>>

\* Builder._install_script_hooks.  The script file may be unreadable
\* (nothing is installed) or raise when executed (after the factories are
\* installed); either way build() raises.
InstallScriptHooks ==
    /\ pc = "install_script_hooks"
    /\ IF Truthy(args.python_script)
       THEN \E outcome \in ScriptOutcomes :
              /\ classes' = IF outcome = "IOError" THEN classes
                            ELSE _install_python_script(classes)
              /\ trace' = IF outcome = "IOError" THEN trace
                          ELSE Append(trace, "HookEnvironment")
              /\ pc' = IF outcome = "ok" THEN After("install_script_hooks")
                       ELSE "raised"
       ELSE /\ pc' = After("install_script_hooks")
            /\ UNCHANGED <<classes, trace>>
    /\ UNCHANGED <<args, url_infos, builds, caller, logging, built, run>>

BuildUrlTable ==
    /\ pc = "build_url_table"
    /\ url_table' = <<_build_url_table(args, classes, url_infos)>>
    /\ url_infos' = AfterIteration(url_infos)
    /\ trace' = trace \o <<"URLTable", "URLTable.add">>
    /\ pc' = After("build_url_table")
    /\ UNCHANGED <<args, classes, builds, caller, logging, processor,
                   http_client, engine, run>>

BuildProcessor ==
    /\ pc = "build_processor"
    /\ LET r == _build_processor(args, classes, url_infos)
       IN /\ processor' = <<r.processor>>
          /\ trace' = trace \o r.events
    /\ pc' = After("build_processor")
    /\ UNCHANGED <<args, classes, url_infos, builds, caller, logging,
                   url_table, http_client, engine, run>>

BuildHttpClient ==
    /\ pc = "build_http_client"
    /\ LET r == _build_http_client(args, classes)
       IN /\ http_client' = <<r.client>>
          /\ trace' = trace \o r.events
    /\ pc' = After("build_http_client")
    /\ UNCHANGED <<args, classes, url_infos, builds, caller, logging,
                   url_table, processor, engine, run>>

ConstructEngine ==
    /\ pc = "construct_engine"
    /\ engine' = <<_build_engine(args, classes, url_table, http_client,
                                 processor)>>
    /\ trace' = Append(trace, "Engine")
    /\ pc' = After("construct_engine")
    /\ UNCHANGED <<args, classes, url_infos, builds, caller, logging,
                   url_table, processor, http_client, run>>

\* While the Engine runs, the processor asks the request factory for a
\* request.
RequestFactoryCall ==
    /\ pc = "run_sync"
    /\ Len(requests) < MaxCalls
    /\ requests' = Append(requests, request_factory(args, classes))
    /\ UNCHANGED <<args, pc, classes, url_infos, builds, caller, trace,
                   logging, built, connections, engine_result, exit_code>>

\* While the Engine runs, the connection pool asks for a host pool and a
\* connection.
ConnectionFactoryCall ==
    /\ pc = "run_sync"
    /\ Len(connections) < MaxCalls
    /\ connections' = Append(connections,
                             connection_factory(args, classes, http_client[1]))
    /\ UNCHANGED <<args, pc, classes, url_infos, builds, caller, trace,
                   logging, built, requests, engine_result, exit_code>>

\* io_loop.run_sync(engine) ends with the Engine's exit status, which
\* build_and_run() returns.
RunSyncReturns ==
    /\ pc = "run_sync"
    /\ \E code \in ExitCodes :
          /\ engine_result' = <<code>>
          /\ exit_code' = <<code>>
    /\ pc' = "ready"
    /\ UNCHANGED <<args, classes, url_infos, builds, caller, trace, logging,
                   built, requests, connections>>

Next ==
    \/ Builder__init__
    \/ build
    \/ build_and_run
    \/ SetupLogging
    \/ SetupFileLogger
    \/ InstallScriptHooks
    \/ BuildUrlTable
    \/ BuildProcessor
    \/ BuildHttpClient
    \/ ConstructEngine
    \/ RequestFactoryCall
    \/ ConnectionFactoryCall
    \/ RunSyncReturns

Spec == Init /\ [][Next]_vars

(***************************************************************************)
(* Properties.                                                             *)
(***************************************************************************)
Built(obj) == obj # NoObject

\* The events of `trace' among `names', in order.
Restrict(names) == SelectSeq(trace, LAMBDA e : e \in names)

IsPrefix(s, t) == Len(s) <= Len(t) /\ s = SubSeq(t, 1, Len(s))

HookFactories ==
    [Engine |-> "hook_environment.engine_factory",
     WebProcessor |-> "hook_environment.web_processor_factory",
     Resolver |-> "hook_environment.resolver_factory"]

\* The seed strings of the configuration: the command-line URLs, then the
\* input file's lines when an input file is configured.
SeedCount ==
    Len(args.urls)
      + (IF args.input_file = NoObject THEN 0 ELSE Len(args.input_file[1]))

SeedString(i) ==
    IF i <= Len(args.urls) THEN args.urls[i]
    ELSE args.input_file[1][i - Len(args.urls)]

ExpectedSeedUrls == [i \in 1..SeedCount |-> parse(SeedString(i), "http").url]

SomeSeedMalformed == \E i \in 1..SeedCount : Malformed(SeedString(i))

\* C1: build() constructs one URLTable at the configured database path and
\* makes exactly one call on it, add() of the normalized seed URLs (the
\* command-line URLs in order, then the input file's, parsed with default
\* scheme 'http'), before the Engine is constructed; the Engine is handed
\* that seeded table.
C1_SeededOnceBeforeEngine ==
    /\ Cardinality(Positions(trace, "URLTable")) <= 1
    /\ Cardinality(Positions(trace, "URLTable.add")) <= 1
    /\ Built(url_table) =>
         /\ url_table[1].path = args.database
         /\ url_table[1].calls = <<[op |-> "add", urls |-> ExpectedSeedUrls]>>
    /\ Built(engine) =>
         /\ Built(url_table)
         /\ engine[1].url_table = url_table
         /\ \A e \in Positions(trace, "Engine") :
               \E t \in Positions(trace, "URLTable.add") : t < e

C1_Witness ==
    /\ Built(engine)
    /\ Len(args.urls) = 2
    /\ args.input_file # NoObject
    /\ Len(args.input_file[1]) = 1

\* C2: with a hook script configured the three hook factories are in the
\* registry before the URL table, processor, HTTP client or Engine is
\* constructed, and the Engine, its WebProcessor and the Resolver of every
\* Connection come from them; without a script they come from the default
\* Engine, WebProcessor and Resolver classes.
C2_HookFactoriesFirst ==
    LET want == IF Truthy(args.python_script) THEN HookFactories
                ELSE [Engine |-> "Engine", WebProcessor |-> "WebProcessor",
                      Resolver |-> "Resolver"]
    IN /\ (Built(url_table) \/ Built(processor) \/ Built(http_client)
             \/ Built(engine)) =>
            \A n \in DOMAIN want : classes[n] = want[n]
       /\ Built(processor) => processor[1].cls = want.WebProcessor
       /\ Built(http_client) =>
            http_client[1].connection_pool.host_connection_pool_factory
                .resolver.cls = want.Resolver
       /\ Built(engine) =>
            /\ engine[1].cls = want.Engine
            /\ Built(engine[1].processor)
            /\ engine[1].processor[1].cls = want.WebProcessor
       /\ \A i \in DOMAIN connections :
            connections[i].resolver.cls = want.Resolver

C2_Witness ==
    /\ Truthy(args.python_script)
    /\ Built(engine)
    /\ connections # <<>>

\* C3: when some seed URL is malformed the constructor raises: build() is
\* never entered, no URL table, processor, HTTP client or Engine exists,
\* nothing is added to the frontier and nothing runs.
C3_MalformedSeedAborts ==
    SomeSeedMalformed =>
        /\ pc \in {"new", "failed"}
        /\ builds = 0
        /\ trace = <<>>
        /\ ~Built(url_table)
        /\ ~Built(processor)
        /\ ~Built(http_client)
        /\ ~Built(engine)
        /\ requests = <<>>
        /\ connections = <<>>
        /\ engine_result = NoObject
        /\ exit_code = NoObject

C3_Witness ==
    /\ pc = "failed"
    /\ Len(args.urls) = 2
    /\ ~Malformed(args.urls[1])
    /\ Malformed(args.urls[2])

NineFilters ==
    <<"HTTPFilter", "BackwardDomainFilter", "HostnameFilter", "TriesFilter",
      "RecursiveFilter", "LevelFilter", "SpanHostsFilter", "RegexFilter",
      "DirectoryFilter">>

\* C4: the WebProcessor's URL filters are the nine required filters, once
\* each and in the fixed order, each configured from its own option, with a
\* ParentFilter last exactly when no_parent is set.
C4_NineFiltersInOrder ==
    Built(processor) =>
        LET f == processor[1].url_filters
        IN /\ [i \in DOMAIN f |-> f[i].cls]
                = NineFilters
                    \o (IF args.no_parent THEN <<"ParentFilter">> ELSE <<>>)
           /\ f[2].accepted = args.domains
           /\ f[2].rejected = args.exclude_domains
           /\ f[3].accepted = args.hostnames
           /\ f[3].rejected = args.exclude_hostnames
           /\ f[4].max_tries = args.tries
           /\ f[5].recursive = args.recursive
           /\ f[5].page_requisites = args.page_requisites
           /\ f[6].max_depth = args.level
           /\ f[7].enabled = args.span_hosts
           /\ f[8].accepted = args.accept_regex
           /\ f[8].rejected = args.reject_regex
           /\ f[9].accepted = args.include_directories
           /\ f[9].rejected = args.exclude_directories

C4_Witness ==
    /\ Built(processor)
    /\ args.no_parent
    /\ args.tries = "tries2"
    /\ args.recursive

\* C5: in every build() of a Builder the URL infos given to the
\* SpanHostsFilter are the whole sequence of parsed seeds, the same whose
\* URLs were added to the URL table, so every seed in the frontier has its
\* host known to the filter; the filter's enabled flag is span_hosts.
C5_SpanHostsSeedsAreFrontierSeeds ==
    Built(processor) =>
        LET spans == SelectSeq(processor[1].url_filters,
                               LAMBDA x : x.cls = "SpanHostsFilter")
            given == spans[1].input_url_infos
            added == url_table[1].calls[1].urls
        IN /\ Len(spans) = 1
           /\ Built(url_table)
           /\ Len(given) = SeedCount
           /\ [i \in DOMAIN given |-> given[i].url] = added
           /\ \A i \in DOMAIN added :
                parse(SeedString(i), "http").hostname
                    \in {given[j].hostname : j \in DOMAIN given}
           /\ spans[1].enabled = args.span_hosts

C5_Witness ==
    /\ Built(processor)
    /\ builds = 2
    /\ Len(url_infos) = 2
    /\ url_infos[1].hostname # url_infos[2].hostname
    /\ args.span_hosts

\* C6: the components are constructed in the order URL table, processor,
\* HTTP client, Engine; the one Engine of a build() gets the seeded URL
\* table, the HTTP client, the processor and concurrent = the 'concurrent'
\* option; build_and_run() returns the exit status the Engine's run ended
\* with.
C6_EngineWiringAndExitStatus ==
    /\ IsPrefix(Restrict({"URLTable", "WebProcessor", "Client", "Engine"}),
                <<"URLTable", "WebProcessor", "Client", "Engine">>)
    /\ Built(engine) =>
         /\ Built(url_table) /\ Built(http_client) /\ Built(processor)
         /\ Len(url_table[1].calls) = 1
         /\ engine[1].url_table = url_table
         /\ engine[1].http_client = http_client
         /\ engine[1].processor = processor
         /\ engine[1].concurrent = args.concurrent
    /\ exit_code # NoObject =>
         /\ caller = "build_and_run"
         /\ Built(engine)
         /\ exit_code = engine_result

C6_Witness ==
    /\ pc = "ready"
    /\ exit_code # NoObject
    /\ exit_code[1] > 0
    /\ args.concurrent > 1

\* C7: before a hook script is installed every registry entry maps a
\* component name to that component's implementation ('Waiter' to
\* LinearWaiter) and only 'Engine' maps to the Engine class; installing a
\* hook script changes the 'Engine', 'WebProcessor' and 'Resolver' entries
\* only.
C7_RegistryFaithful ==
    pc # "new" =>
        LET own(n) == IF n = "Waiter" THEN "LinearWaiter" ELSE n
            hooked == classes.Engine = HookFactories.Engine
        IN /\ \A n \in DOMAIN classes \ DOMAIN HookFactories :
                classes[n] = own(n)
           /\ ~hooked => \A n \in DOMAIN classes : classes[n] = own(n)
           /\ ~hooked => {n \in DOMAIN classes : classes[n] = "Engine"}
                            = {"Engine"}

\* The writer the precedence of C8 selects.
ExpectedWriter ==
    CASE args.delete_after -> "NullWriter"
      [] ~args.delete_after
           /\ (args.recursive \/ args.page_requisites
                 \/ args.continue_download)
           /\ args.clobber_method = "disable" -> "OverwriteFileWriter"
      [] ~args.delete_after
           /\ (args.recursive \/ args.page_requisites
                 \/ args.continue_download)
           /\ args.clobber_method # "disable" -> "IgnoreFileWriter"
      [] ~args.delete_after
           /\ ~(args.recursive \/ args.page_requisites
                  \/ args.continue_download)
           /\ args.timestamping -> "TimestampingFileWriter"
      [] OTHER -> "AntiClobberFileWriter"

\* C8: the file writer is chosen by the precedence delete_after (NullWriter,
\* no PathNamer built), then recursive / page_requisites /
\* continue_download (Overwrite when clobber_method is 'disable', else
\* Ignore), then timestamping (Timestamping), else AntiClobber; so
\* timestamping has no effect with recursive, page_requisites or
\* continue_download, and AntiClobber needs all five options unset.
C8_FileWriterPrecedence ==
    Built(processor) =>
        LET w == processor[1].file_writer
            crawl == args.recursive \/ args.page_requisites
                        \/ args.continue_download
        IN /\ w.cls = ExpectedWriter
           /\ args.delete_after <=> "PathNamer" \notin Range(trace)
           /\ crawl => w.cls # "TimestampingFileWriter"
           /\ w.cls = "AntiClobberFileWriter" <=>
                ~(args.delete_after \/ crawl \/ args.timestamping)

C8_Witness ==
    /\ Built(processor)
    /\ args.timestamping
    /\ args.continue_download
    /\ ~args.recursive
    /\ ~args.delete_after
    /\ processor[1].file_writer.cls = "IgnoreFileWriter"

\* Whether file name `name' ends in `suffix' (the names of the model are a
\* configured WARC file name plus an extension).
EndsIn(name, suffix) == \E stem \in {"out"} : name = stem \o suffix

\* C9: the HTTP client gets the one DemuxRecorder, whose sinks are, in
\* order, a WARC recorder iff warc_file is set, a server-response printer
\* iff server_response is set, and a progress recorder iff verbosity is
\* INFO, DEBUG, WARN or unset; the WARC file name ends in '.warc.gz' exactly
\* when compress is true and in '.warc' exactly when it is false, and
\* appending is the warc_append option.
C9_RecorderSinks ==
    Built(http_client) =>
        LET r == http_client[1].recorder
            sinks == r.recorders
            want == (IF args.warc_file \notin {None, ""}
                     THEN <<"WARCRecorder">> ELSE <<>>)
                    \o (IF args.server_response
                        THEN <<"PrintServerResponseRecorder">> ELSE <<>>)
                    \o (IF args.verbosity \in {"INFO", "DEBUG", "WARN", None}
                        THEN <<"ProgressRecorder">> ELSE <<>>)
        IN /\ r.cls = "DemuxRecorder"
           /\ Cardinality(Positions(trace, "DemuxRecorder")) = 1
           /\ [i \in DOMAIN sinks |-> sinks[i].cls] = want
           /\ \A i \in DOMAIN sinks :
                sinks[i].cls = "WARCRecorder" =>
                    /\ sinks[i].compress <=> EndsIn(sinks[i].filename, ".warc.gz")
                    /\ ~sinks[i].compress <=> EndsIn(sinks[i].filename, ".warc")
                    /\ sinks[i].appending = args.warc_append

C9_Witness ==
    /\ Built(http_client)
    /\ Len(http_client[1].recorder.recorders) = 3
    /\ args.no_warc_compression
    /\ args.warc_append

\* C10: every request of the request factory has User-Agent set first (the
\* user_agent option when non-empty, else the default Wpull string), then
\* Referer set iff the referer option is non-empty, then the caller's
\* header lines applied in their configured order.
C10_RequestHeaders ==
    \A i \in DOMAIN requests :
        LET ops == requests[i].field_ops
            k == IF args.referer \in {None, ""} THEN 1 ELSE 2
        IN /\ Len(ops) = k + Len(args.header)
           /\ ops[1] = [op |-> "set", name |-> "User-Agent",
                        value |-> IF args.user_agent \in {None, ""}
                                  THEN "Mozilla/5.0 (compatible) Wpull/__version__"
                                  ELSE args.user_agent]
           /\ k = 2 => ops[2] = [op |-> "set", name |-> "Referer",
                                 value |-> args.referer]
           /\ \A j \in DOMAIN ops :
                ops[j].name = "Referer" => (j = 2 /\ k = 2)
           /\ \A j \in DOMAIN args.header :
                /\ ops[k + j].op = "parse"
                /\ ops[k + j].value = args.header[j]

C10_Witness ==
    /\ requests # <<>>
    /\ Truthy(args.referer)
    /\ Truthy(args.user_agent)
    /\ Len(args.header) = 2
    /\ args.header[1] # args.header[2]
====
